---- MODULE Spec2Model ----
(***************************************************************************)
(* LightEngine (src/light_engine.py): one run of the command-line process. *)
(*                                                                         *)
(* The process is sequential.  pc is the position in the code; every RPC   *)
(* endpoint contact is one step whose outcome is chosen by the             *)
(* environment.  Amounts are integer wei.                                  *)
(*                                                                         *)
(* Numbers.  TLC integers are 32 bit, so 10**18 is not a value of the      *)
(* model: a decimal command-line literal is the record [m, d] standing for *)
(* m * 10^-d and the unit conversions scale it by a power of ten given as  *)
(* an exponent.  Floating point is modelled as exact arithmetic followed   *)
(* by the int() truncation the code applies; the enumerated literals are   *)
(* ones for which CPython's double arithmetic gives exactly that value.    *)
(* round(x, 3) and the .3f format are decided by the double nearest to the *)
(* quotient, so a value lying exactly on a decimal tie may go either way:  *)
(* the tie is resolved by a boolean the environment chooses.  The error of *)
(* the double arithmetic inside pct (which can lose one wei when the exact *)
(* blend is integral) is not represented.                                  *)
(***************************************************************************)
EXTENDS Integers, Sequences, FiniteSets, TLC

\* ------------------------------------------------------------------ bounds
MaxUrls     == 2   \* longest RPC_URLS list
MaxRpcDelay == 1   \* seconds one endpoint contact may take
MaxHist     == 3   \* longest baseFeePerGas list an endpoint returns
MaxPolls    == 6   \* cap on the polls of one wait run

\* --------------------------------------------------------------- constants
EthDecimals    == 18   \* PWEI = 10**18
GweiDecimals   == 9    \* 1e9
MilliGweiWei   == 1000000   \* wei per 0.001 gwei: round(x/1e9, 3)
DefaultBlocks  == 20
DefaultTimeout == 900
SleepSecs      == 5
ExitFailureMutZero == 1 - 1
ExitFailure    == 1    \* sys.exit(<string>) and an uncaught exception
ExitTimeout    == 2

Handlers == {"oracle", "wait", "plan", "estimate"}
DefaultPcts == {5, 20, 50, 80, 95}

Min(x, y) == IF x <= y THEN x ELSE y
Max(x, y) == IF x >= y THEN x ELSE y

Dec(m, d) == [m |-> m, d |-> d]

RECURSIVE Pow10(_)
Pow10(e) == IF e = 0 THEN 1 ELSE 10 * Pow10(e - 1)

\* int(<float>): truncation toward zero
TruncDiv(x, q) == IF x >= 0 THEN x \div q ELSE -((-x) \div q)

\* int(float(x) * 10^e)
ScaleDec(x, e) ==
  IF x.m = 0 THEN 0
  ELSE IF x.d >= e THEN TruncDiv(x.m, Pow10(x.d - e))
  ELSE x.m * Pow10(e - x.d)

gwei_to_wei(x) == ScaleDec(x, GweiDecimals)
eth_to_wei(x)  == ScaleDec(x, EthDecimals)

\* round(wei_to_gwei(x + y), 3) in units of 0.001 gwei.  The sum is formed
\* limb-wise so that it never leaves the 32-bit range; up resolves a tie.
Round3Sum(x, y, up) ==
  LET r == (x % MilliGweiWei) + (y % MilliGweiWei)
      q == (x \div MilliGweiWei) + (y \div MilliGweiWei) + (r \div MilliGweiWei)
      f == r % MilliGweiWei
  IN  IF 2 * f > MilliGweiWei \/ (2 * f = MilliGweiWei /\ up) THEN q + 1 ELSE q

round3_wei_to_gwei(x, up) == Round3Sum(x, 0, up)

\* gwei_to_wei(1.5), the except branch of maxprio
MaxprioDefault == gwei_to_wei(Dec(15, 1))
\* gwei_to_wei(2), the fixed headroom
Headroom == gwei_to_wei(Dec(2, 0))

\* ---------------------------------------------------------------- fee_hist
RECURSIVE Insert(_, _)
Insert(s, x) ==
  IF s = <<>> THEN <<x>>
  ELSE IF x <= Head(s) THEN <<x>> \o s
  ELSE <<Head(s)>> \o Insert(Tail(s), x)

RECURSIVE sorted(_)
sorted(v) == IF v = <<>> THEN <<>> ELSE Insert(sorted(Tail(v)), Head(v))

\* v[-n:]
LastN(v, n) ==
  LET len == Len(v)
      from == IF n > 0 THEN Max(len - n, 0) ELSE Min(-n, len)
  IN  SubSeq(v, from + 1, len)

\* pct(v, p) of fee_hist; v is non-empty and p in 0..100.  k = kn/100.
pctMutNoSort(v, p) ==
  LET s  == v
      kn == (Len(s) - 1) * p
      i  == kn \div 100
      j  == Min(i + 1, Len(s) - 1)
  IN  IF i = j THEN s[i + 1]
      ELSE (100 * s[i + 1] + (s[j + 1] - s[i + 1]) * (kn % 100)) \div 100

pct(v, p) ==
  LET s  == sorted(v)
      kn == (Len(s) - 1) * p
      i  == kn \div 100
      j  == Min(i + 1, Len(s) - 1)
  IN  IF i = j THEN s[i + 1]
      ELSE (100 * s[i + 1] + (s[j + 1] - s[i + 1]) * (kn % 100)) \div 100

\* -------------------------------------------------------------------- plan
BreakEvenMutNoTip(profitWei, gasUnits, tipWei) ==
  Max(0, profitWei \div Max(1, gasUnits))

BreakEvenMutCeil(profitWei, gasUnits, tipWei) ==
  Max(0, ((profitWei + Max(1, gasUnits) - 1) \div Max(1, gasUnits)) - tipWei)

BreakEven(profitWei, gasUnits, tipWei) ==
  Max(0, (profitWei \div Max(1, gasUnits)) - tipWei)

Recommend(baseFee, maxBase) == IF baseFee <= maxBase THEN "SEND" ELSE "WAIT"

\* ---------------------------------------------------------------- estimate
\* round(gasUnits * feeWei / PWEI, 8) in units of 1e-8 ETH (10^10 wei); the
\* product is formed in limbs of 10^5.
CostE8(gasUnits, feeWei, up) ==
  LET L  == 100000
      p1 == gasUnits * (feeWei \div L)
      p2 == gasUnits * (feeWei % L)
      t  == p1 + (p2 \div L)
      q  == t \div L
      hi == t % L
      lo == p2 % L
  IN  IF 2 * hi > L \/ (2 * hi = L /\ (lo > 0 \/ up)) THEN q + 1 ELSE q

\* bf + pr + gwei_to_wei(2) as a two-limb number (gwei, wei below one gwei)
Wide(x, y) ==
  LET G == Pow10(GweiDecimals)
  IN  [gwei |-> (x \div G) + (y \div G) + (((x % G) + (y % G)) \div G),
       wei  |-> ((x % G) + (y % G)) % G]

\* ------------------------------------------------------------------- state
VARIABLES
  mode,      \* sys.argv[1]; "none" when absent
  a,         \* sys.argv[2:], each argument as the literal the handler parses
  nUrls,     \* len(urls()); at least 1
  pc,        \* position in the code
  ret,       \* where the running rpc call returns to
  method,    \* JSON-RPC method of the running (or last) rpc call
  idx,       \* position of the for loop of rpc in urls(), from 1
  last,      \* rpc: the last failure
  log,       \* endpoint contacts of the running (or last) rpc call
  res,       \* value returned by the last rpc call
  n,         \* cmd_oracle: block count
  base,      \* fee_hist: the samples kept
  pctWei,    \* fee_hist: pct(base, p) for the percentiles asked
  tgt,       \* cmd_wait: target in wei
  to,        \* cmd_wait: timeout in seconds
  elapsed,   \* cmd_wait: time.time() - t0
  fees,      \* cmd_wait: the base fees polled so far
  bf,        \* basefee()
  profit,    \* cmd_plan: eth_to_wei(profit)
  gas,       \* cmd_plan: gas units; cmd_estimate: estimated gas
  tip,       \* cmd_plan: tip; cmd_estimate: pr
  head,      \* cmd_plan: headroom
  max_base,  \* cmd_plan: break-even base fee
  tx,        \* cmd_estimate: the transaction intent
  stdout,    \* what was printed, in order
  stderr,    \* the message the process ended with
  exitCode,  \* exit status of the process (read when pc = "done")
  everOk,    \* some endpoint answered with a result field
  usable,    \* methods whose result the caller could use
  prioFallback \* maxprio took its except branch

vars == <<mode, a, nUrls, pc, ret, method, idx, last, log, res, n, base,
          pctWei, tgt, to, elapsed, fees, bf, profit, gas, tip, head,
          max_base, tx, stdout, stderr, exitCode, everOk, usable,
          prioFallback>>

envVars    == <<mode, a, nUrls>>
rpcVars    == <<ret, method, idx, last, log, res>>
oracleVars == <<n, base, pctWei>>
waitVars   == <<tgt, to, elapsed, fees>>
planVars   == <<profit, gas, tip, head, max_base>>
ioVars     == <<stdout, stderr, exitCode>>
histVars   == <<everOk, usable, prioFallback>>

\* ------------------------------------------------------------------ inputs
BlockArgs   == {-1, 0, 1, 2, 3}
Samples     == {10, 21, 3000000}
ExampleHist == {<<10, 20, 30, 40, 50>>, <<50, 10, 40, 20, 30>>}
Fees        == {0, 3, 1500000}       \* 0 also stands for an absent baseFeePerGas
TargetArgs  == {Dec(0, 0), Dec(5, 9), Dec(2, 3)}
TimeoutArgs == {-1, 0, 7}
ProfitArgs  == {Dec(0, 0), Dec(12, 18), Dec(-5, 18), Dec(105, 19), Dec(2, 9)}
GasArgs     == {-1, 0, 1, 5}
TipArgs     == {Dec(0, 0), Dec(2, 9), Dec(-2, 9)}
HeadArgs    == {Dec(1, 9)}
PrioResults == {0, 2}              \* int(<hex string>, 16)
GasResults  == {0, 21000}          \* a hex string or a number, as an integer
ValueArgs   == {Dec(1, 18)}

RECURSIVE SeqsUpTo(_, _)
SeqsUpTo(S, k) ==
  IF k = 0 THEN {<<>>}
  ELSE LET shorter == SeqsUpTo(S, k - 1)
       IN  shorter \cup {Append(s, x) : s \in shorter, x \in S}

FailureKinds == {"neterr", "timeout", "nonjson", "errobj"}

Failure(k)  == [kind |-> k, good |-> FALSE, num |-> 0, list |-> <<>>]
NumResult(v) == [kind |-> "result", good |-> TRUE, num |-> v, list |-> <<>>]
ListResult(l) == [kind |-> "result", good |-> TRUE, num |-> 0, list |-> l]
\* a result field the caller cannot use (null, not hex, missing key)
BadResult   == [kind |-> "result", good |-> FALSE, num |-> 0, list |-> <<>>]
NoResult    == Failure("none")

\* what one endpoint may answer to a request
Outcomes(m) ==
  {Failure(k) : k \in FailureKinds} \cup {BadResult} \cup
  CASE m = "eth_getBlockByNumber"     -> {NumResult(f) : f \in Fees}
    [] m = "eth_maxPriorityFeePerGas" -> {NumResult(t) : t \in PrioResults}
    [] m = "eth_estimateGas"          -> {NumResult(g) : g \in GasResults}
    [] m = "eth_feeHistory"           ->
         {ListResult(l) : l \in SeqsUpTo(Samples, MaxHist) \cup ExampleHist}

\* ---------------------------------------------------------------- printing
Line(g)  == [kind |-> "line", baseFee |-> g]
Go       == [kind |-> "GO"]
Timeout  == [kind |-> "TIMEOUT"]

JsonCount == Cardinality({i \in DOMAIN stdout : stdout[i].kind = "json"})

\* -------------------------------------------------------------------- Init
Init ==
  /\ nUrls \in 1..MaxUrls
  /\ \/ mode \in {"none", "bogus"} /\ a = <<>>
     \/ mode = "oracle" /\ (a = <<>> \/ \E k \in BlockArgs : a = <<k>>)
     \/ mode = "wait" /\ \/ a = <<>>
                         \/ \E g \in TargetArgs, t \in TimeoutArgs : a = <<g, t>>
     \/ mode = "plan"
        /\ \/ a = <<>>
           \/ \E p \in ProfitArgs : a = <<p>>
           \/ \E p \in ProfitArgs, g \in GasArgs :
                \/ a = <<p, g>>
                \/ \E t \in TipArgs :
                     \/ a = <<p, g, t>>
                     \/ \E h \in HeadArgs : a = <<p, g, t, h>>
     \/ mode = "estimate"
        /\ \/ a = <<"0xA", "0xB">>
           \/ a = <<"0xA", "0xB", "0x">>
           \/ \E v \in ValueArgs : a = <<"0xA", "0xB", "0x", v>>
  /\ pc = "main"
  /\ ret = "none" /\ method = "none" /\ idx = 1 /\ last = "none"
  /\ log = <<>> /\ res = NoResult
  /\ n = 0 /\ base = <<>> /\ pctWei = [p \in DefaultPcts |-> 0]
  /\ tgt = 0 /\ to = 0 /\ elapsed = 0 /\ fees = <<>>
  /\ bf = 0 /\ profit = 0 /\ gas = 0 /\ tip = 0 /\ head = 0 /\ max_base = 0
  /\ tx = [value |-> 0, hasValue |-> FALSE, maxPrio |-> 0, maxFee |-> Wide(0, 0)]
  /\ stdout = <<>> /\ stderr = "" /\ exitCode = 0
  /\ everOk = FALSE /\ usable = {} /\ prioFallback = FALSE

\* ----------------------------------------------------------------- helpers
\* sys.exit(code or message), or an uncaught exception
Terminate(code, msg) ==
  /\ pc' = "done"
  /\ exitCode' = code
  /\ stderr' = msg

\* the handler returned: main falls off its end
Return ==
  /\ pc' = "done"
  /\ UNCHANGED <<exitCode, stderr>>

BeginRpc(m, r) ==
  /\ method' = m
  /\ idx' = 1
  /\ last' = "none"
  /\ log' = <<>>
  /\ ret' = r
  /\ pc' = "rpc"
  /\ UNCHANGED res

\* if "result" in out
IsResultMutAny(out) == out.kind \in {"result", "errobj"}

IsResult(out) == out.kind = "result"

\* the for loop of rpc moves to the next endpoint
NextUrl(i) == i + 1

\* ------------------------------------------------------------------- main
Main ==
  /\ pc = "main"
  /\ IF mode \notin Handlers
     THEN Terminate(ExitFailure, "modes")
     ELSE pc' = mode /\ UNCHANGED <<exitCode, stderr>>
  /\ UNCHANGED <<envVars, rpcVars, oracleVars, waitVars, planVars, bf, tx,
                 stdout, histVars>>

\* -------------------------------------------------------------------- rpc
\* one pass of the for loop: the endpoint at idx answers
RpcContact ==
  /\ pc = "rpc"
  /\ idx <= nUrls
  /\ \E out \in Outcomes(method),
        d \in (IF mode = "wait" THEN 0..MaxRpcDelay ELSE {0}) :
       /\ log' = Append(log, [url |-> idx, out |-> out])
       /\ elapsed' = IF mode = "wait" THEN elapsed + d ELSE elapsed
       /\ IF IsResult(out)
          THEN /\ res' = out
               /\ pc' = ret
               /\ everOk' = TRUE
               /\ usable' = IF out.good THEN usable \cup {method} ELSE usable
               /\ UNCHANGED <<idx, last>>
          ELSE /\ last' = out.kind
               /\ idx' = NextUrl(idx)
               /\ UNCHANGED <<res, pc, everOk, usable>>
  /\ UNCHANGED <<envVars, ret, method, oracleVars, tgt, to, fees, planVars,
                 bf, tx, ioVars, prioFallback>>

\* what maxprio's caller does next: basefee()
AfterMaxprio(t) ==
  /\ tip' = t
  /\ BeginRpc("eth_getBlockByNumber", IF mode = "plan" THEN "plan_bf" ELSE "est_bf")

\* the bare except of maxprio catches the SystemExit of rpc
CatchesMutException(m) == FALSE

Catches(m) == m = "eth_maxPriorityFeePerGas"

\* the for loop ran out: sys.exit("RPC failed: ...")
RpcExhausted ==
  /\ pc = "rpc"
  /\ idx > nUrls
  /\ IF Catches(method)
     THEN /\ AfterMaxprio(MaxprioDefault)
          /\ prioFallback' = TRUE
          /\ UNCHANGED <<ioVars>>
     ELSE /\ Terminate(ExitFailure, "RPC failed")
          /\ UNCHANGED <<rpcVars, tip, prioFallback, stdout>>
  /\ UNCHANGED <<envVars, oracleVars, waitVars, profit, gas, head, max_base,
                 bf, tx, everOk, usable>>

\* maxprio: int(rpc(...), 16), or the default when that raises
MaxprioRet ==
  /\ pc = "maxprio"
  /\ AfterMaxprio(IF res.good THEN res.num ELSE MaxprioDefault)
  /\ prioFallback' = ~res.good
  /\ UNCHANGED <<envVars, oracleVars, waitVars, profit, gas, head, max_base,
                 bf, tx, ioVars, everOk, usable>>

\* ----------------------------------------------------------------- oracle
cmd_oracle ==
  /\ pc = "oracle"
  /\ n' = IF a # <<>> THEN a[1] ELSE DefaultBlocks
  /\ BeginRpc("eth_feeHistory", "fee_hist")
  /\ UNCHANGED <<envVars, base, pctWei, waitVars, planVars, bf, tx, ioVars,
                 histVars>>

\* the JSON object cmd_oracle prints
OracleJson(blocks, b, upP, upL) ==
  [kind     |-> "json",
   blocks   |-> blocks,
   pct_gwei |-> [p \in DefaultPcts |-> round3_wei_to_gwei(pct(b, p), upP[p])],
   latest   |-> round3_wei_to_gwei(b[Len(b)], upL)]

\* fee_hist after its rpc call, and the print of cmd_oracle
fee_hist ==
  /\ pc = "fee_hist"
  /\ IF ~res.good \/ LastN(res.list, n) = <<>>
     THEN \* KeyError / TypeError / IndexError
          /\ Terminate(ExitFailure, "traceback")
          /\ UNCHANGED <<base, pctWei, stdout>>
     ELSE /\ base' = LastN(res.list, n)
          /\ pctWei' = [p \in DefaultPcts |-> pct(base', p)]
          /\ \E upP \in [DefaultPcts -> BOOLEAN], upL \in BOOLEAN :
               stdout' = Append(stdout, OracleJson(n, base', upP, upL))
          /\ Return
  /\ UNCHANGED <<envVars, rpcVars, n, waitVars, planVars, bf, tx, histVars>>

\* ------------------------------------------------------------------- wait
cmd_wait ==
  /\ pc = "wait"
  /\ IF a = <<>>
     THEN /\ Terminate(ExitFailure, "need maxBaseFeeGwei")
          /\ UNCHANGED <<rpcVars, tgt, to>>
     ELSE /\ tgt' = gwei_to_wei(a[1])
          /\ to' = IF Len(a) > 1 THEN a[2] ELSE DefaultTimeout
          /\ BeginRpc("eth_getBlockByNumber", "wait_poll")
          /\ UNCHANGED <<exitCode, stderr>>
  /\ UNCHANGED <<envVars, oracleVars, elapsed, fees, planVars, bf, tx, stdout,
                 histVars>>

\* if bf <= tgt
ReachedMutBelow(fee, target) == fee < target

Reached(fee, target) == fee <= target

\* if time.time() - t0 > to
TimedOutMutGe(secs, limit) == secs >= limit

TimedOut(secs, limit) == secs > limit

\* time.sleep(5)
SleepMutNone(secs) == secs

Sleep(secs) == secs + SleepSecs

\* one pass of the while loop, from the value basefee() got to the sleep
wait_poll ==
  /\ pc = "wait_poll"
  /\ IF ~res.good
     THEN \* b.get on a result that is no block
          /\ Terminate(ExitFailure, "traceback")
          /\ UNCHANGED <<rpcVars, bf, fees, elapsed, stdout>>
     ELSE /\ bf' = res.num
          /\ fees' = Append(fees, res.num)
          /\ \E up \in BOOLEAN :
               LET printed == Append(stdout, Line(round3_wei_to_gwei(res.num, up)))
               IN  IF Reached(res.num, tgt)
                   THEN /\ stdout' = Append(printed, Go)
                        /\ Return
                        /\ UNCHANGED <<rpcVars, elapsed>>
                   ELSE IF TimedOut(elapsed, to)
                   THEN /\ stdout' = Append(printed, Timeout)
                        /\ Terminate(ExitTimeout, "")
                        /\ UNCHANGED <<rpcVars, elapsed>>
                   ELSE /\ Len(fees) + 1 < MaxPolls
                        /\ stdout' = printed
                        /\ elapsed' = Sleep(elapsed)
                        /\ BeginRpc("eth_getBlockByNumber", "wait_poll")
                        /\ UNCHANGED <<exitCode, stderr>>
  /\ UNCHANGED <<envVars, oracleVars, tgt, to, planVars, tx, histVars>>

\* ------------------------------------------------------------------- plan
cmd_plan ==
  /\ pc = "plan"
  /\ IF Len(a) < 2
     THEN /\ Terminate(ExitFailure, "usage: plan")
          /\ UNCHANGED <<rpcVars, profit, gas, tip, head>>
     ELSE /\ profit' = eth_to_wei(a[1])
          /\ gas' = a[2]
          /\ head' = IF Len(a) > 3 THEN gwei_to_wei(a[4]) ELSE Headroom
          /\ IF Len(a) > 2
             THEN AfterMaxprio(gwei_to_wei(a[3]))
             ELSE /\ BeginRpc("eth_maxPriorityFeePerGas", "maxprio")
                  /\ UNCHANGED tip
          /\ UNCHANGED <<exitCode, stderr>>
  /\ UNCHANGED <<envVars, oracleVars, waitVars, max_base, bf, tx, stdout,
                 histVars>>

\* the JSON object cmd_plan prints; up resolves the rounding ties
PlanJson(fee, t, h, mb, up) ==
  [kind                      |-> "json",
   baseFee_gwei              |-> round3_wei_to_gwei(fee, up[1]),
   priority_gwei             |-> round3_wei_to_gwei(t, up[2]),
   break_even_baseFee_gwei   |-> round3_wei_to_gwei(mb, up[3]),
   recommend                 |-> Recommend(fee, mb),
   maxPriorityFeePerGas_gwei |-> round3_wei_to_gwei(t, up[2]),
   maxFeePerGas_gwei         |-> Round3Sum(fee + t, h, up[4])]

\* cmd_plan from the value basefee() got to the print
plan_bf ==
  /\ pc = "plan_bf"
  /\ IF ~res.good
     THEN /\ Terminate(ExitFailure, "traceback")
          /\ UNCHANGED <<bf, max_base, stdout>>
     ELSE /\ bf' = res.num
          /\ max_base' = BreakEven(profit, gas, tip)
          /\ \E up \in [1..4 -> BOOLEAN] :
               stdout' = Append(stdout, PlanJson(bf', tip, head, max_base', up))
          /\ Return
  /\ UNCHANGED <<envVars, rpcVars, oracleVars, waitVars, profit, gas, tip,
                 head, tx, histVars>>

\* --------------------------------------------------------------- estimate
cmd_estimate ==
  /\ pc = "estimate"
  /\ IF Len(a) < 3
     THEN /\ Terminate(ExitFailure, "usage: estimate")
          /\ UNCHANGED <<rpcVars, tx>>
     ELSE /\ tx' = [tx EXCEPT !.hasValue = Len(a) > 3,
                              !.value = IF Len(a) > 3 THEN eth_to_wei(a[4]) ELSE 0]
          /\ BeginRpc("eth_maxPriorityFeePerGas", "maxprio")
          /\ UNCHANGED <<exitCode, stderr>>
  /\ UNCHANGED <<envVars, oracleVars, waitVars, planVars, bf, stdout, histVars>>

est_bfMutPrintsFee ==
  /\ pc = "est_bf"
  /\ IF ~res.good
     THEN /\ Terminate(ExitFailure, "traceback")
          /\ UNCHANGED <<rpcVars, bf, tx, stdout>>
     ELSE /\ bf' = res.num
          /\ tx' = [tx EXCEPT !.maxPrio = tip,
                              !.maxFee = Wide(res.num + tip, Headroom)]
          /\ stdout' = Append(stdout, Line(round3_wei_to_gwei(res.num, TRUE)))
          /\ BeginRpc("eth_estimateGas", "est_gas")
          /\ UNCHANGED <<exitCode, stderr>>
  /\ UNCHANGED <<envVars, oracleVars, waitVars, planVars, histVars>>

\* cmd_estimate from the value basefee() got to the eth_estimateGas request
est_bf ==
  /\ pc = "est_bf"
  /\ IF ~res.good
     THEN /\ Terminate(ExitFailure, "traceback")
          /\ UNCHANGED <<rpcVars, bf, tx>>
     ELSE /\ bf' = res.num
          /\ tx' = [tx EXCEPT !.maxPrio = tip,
                              !.maxFee = Wide(res.num + tip, Headroom)]
          /\ BeginRpc("eth_estimateGas", "est_gas")
          /\ UNCHANGED <<exitCode, stderr>>
  /\ UNCHANGED <<envVars, oracleVars, waitVars, planVars, stdout, histVars>>

\* the JSON object cmd_estimate prints
EstimateJson(g, fee, up) ==
  [kind |-> "json", gas |-> g, cost_eth_at_current |-> CostE8(g, fee, up)]

\* cmd_estimate from the estimated gas to the print
est_gas ==
  /\ pc = "est_gas"
  /\ IF ~res.good
     THEN /\ Terminate(ExitFailure, "traceback")
          /\ UNCHANGED <<gas, stdout>>
     ELSE /\ gas' = res.num
          /\ \E up \in BOOLEAN :
               stdout' = Append(stdout, EstimateJson(res.num, bf + tip, up))
          /\ Return
  /\ UNCHANGED <<envVars, rpcVars, oracleVars, waitVars, profit, tip, head,
                 max_base, bf, tx, histVars>>

\* ------------------------------------------------------------------- spec
Next ==
  \/ Main
  \/ RpcContact
  \/ RpcExhausted
  \/ MaxprioRet
  \/ cmd_oracle
  \/ fee_hist
  \/ cmd_wait
  \/ wait_poll
  \/ cmd_plan
  \/ plan_bf
  \/ cmd_estimate
  \/ est_bf
  \/ est_gas

Spec == Init /\ [][Next]_vars

\* The runs of wait: the process keeps running, and every request returns or
\* fails in finite time (urlopen has a timeout).
WaitInit == Init /\ mode = "wait"

WaitNext ==
  \/ Main
  \/ cmd_wait
  \/ RpcContact
  \/ RpcExhausted
  \/ wait_poll

FairSpec == WaitInit /\ [][WaitNext]_vars /\ WF_vars(WaitNext)

Done == pc = "done"

\* ------------------------------------------------------------- properties
Kinds(out)     == {out[i].kind : i \in DOMAIN out}
GoPrinted      == "GO" \in Kinds(stdout)
TimeoutPrinted == "TIMEOUT" \in Kinds(stdout)
OnlyJson       == Len(stdout) = 1 /\ stdout[1].kind = "json"
AtReturn       == pc \in {"fee_hist", "wait_poll", "maxprio", "plan_bf", "est_bf", "est_gas"}
PlanPrinted    == mode = "plan" /\ Done /\ OnlyJson
OraclePrinted  == mode = "oracle" /\ Done /\ OnlyJson

\* C1: rpc contacts the endpoints in list order, each at most once; while the
\* call runs every endpoint contacted so far has failed; the call returns the
\* answer of the first endpoint whose response has a result field, whatever
\* the earlier failures were, and contacts no endpoint after it; it gives up
\* only after all endpoints were contacted.
RpcFirstResultWins ==
  /\ Len(log) <= nUrls
  /\ \A i \in DOMAIN log : log[i].url = i
  /\ \A i \in DOMAIN log : i < Len(log) => log[i].out.kind \in FailureKinds
  /\ pc = "rpc" => /\ \A i \in DOMAIN log : log[i].out.kind \in FailureKinds
                   /\ idx = Len(log) + 1
  /\ AtReturn => /\ log # <<>>
                 /\ log[Len(log)].out.kind = "result"
                 /\ res = log[Len(log)].out
  /\ (Done /\ stderr = "RPC failed") =>
       /\ Len(log) = nUrls
       /\ \A i \in DOMAIN log : log[i].out.kind \in FailureKinds

\* C1 witness: the first endpoint failed and the call returned the result of
\* the second
RpcFallbackReturned ==
  /\ AtReturn
  /\ Len(log) = 2
  /\ log[1].out.kind \in FailureKinds
  /\ res = log[2].out
  /\ res.good

\* C2: when no endpoint ever answers with a result, a run of oracle, wait,
\* plan or estimate with valid arguments prints nothing and, once it has
\* ended, has a non-zero exit status.
ValidArgs ==
  \/ mode = "oracle"
  \/ mode = "wait" /\ Len(a) >= 1
  \/ mode = "plan" /\ Len(a) >= 2
  \/ mode = "estimate" /\ Len(a) >= 3

AllEndpointsFailExit ==
  (ValidArgs /\ ~everOk) =>
     /\ stdout = <<>>
     /\ Done => exitCode # 0 /\ stderr = "RPC failed"

\* C2 witness: plan without a tip, every endpoint failed twice: maxprio fell
\* back and the base-fee request ended the process
AllFailedPlanExited ==
  /\ mode = "plan" /\ ValidArgs /\ ~everOk
  /\ prioFallback
  /\ Done /\ exitCode = 1
  /\ Len(log) = nUrls

\* C3: in wait no poll before the last one had a fee at or below the target;
\* GO is printed exactly when the last polled fee is at or below the target,
\* in the step of that poll, and then wait has ended with exit status 0 after
\* as many fee lines as polls.
WaitGoAtFirstReach ==
  mode = "wait" =>
    /\ \A i \in 1..(Len(fees) - 1) : fees[i] > tgt
    /\ GoPrinted <=> (fees # <<>> /\ fees[Len(fees)] <= tgt)
    /\ GoPrinted =>
         /\ Done /\ exitCode = 0
         /\ Len(stdout) = Len(fees) + 1
         /\ stdout[Len(stdout)].kind = "GO"
         /\ \A i \in 1..Len(fees) : stdout[i].kind = "line"

\* C3 witness: the target was first reached at the second poll or later
WaitGoAfterHigherFees == mode = "wait" /\ GoPrinted /\ Len(fees) >= 2

\* C4: exit status 2 is produced only by the timeout path of wait: directly
\* after printing TIMEOUT, at a poll whose fee is above the target and at
\* which more than the timeout has elapsed; and TIMEOUT is printed only there.
ExitTwoOnlyOnTimeout ==
  /\ exitCode = 2 =>
       /\ mode = "wait" /\ Done
       /\ stdout # <<>> /\ stdout[Len(stdout)].kind = "TIMEOUT"
       /\ fees # <<>> /\ fees[Len(fees)] > tgt /\ bf = fees[Len(fees)]
       /\ elapsed > to
       /\ stderr = ""
  /\ TimeoutPrinted => exitCode = 2
  /\ stderr # "" => exitCode = 1

\* C4 witness: wait ended by its timeout
WaitTimedOut == Done /\ exitCode = 2 /\ TimeoutPrinted

\* floor(x / y) for any y # 0
FloorDiv(x, y) == IF y > 0 THEN x \div y ELSE (-x) \div (-y)

\* C5 as stated: for every gasUnits the break-even fee of plan is
\* max(0, floor(profit_wei / gasUnits) - tip).
PlanBreakEvenAnyGas ==
  (PlanPrinted /\ gas # 0) => max_base = Max(0, FloorDiv(profit, gas) - tip)

\* C5 amended: for gasUnits >= 1 the break-even fee of plan is
\* max(0, floor(profit_wei / gasUnits) - tip), for gasUnits <= 0 it is
\* max(0, profit_wei - tip); it is reported in gwei rounded to 3 decimals, and
\* the recommendation is SEND exactly when the base fee is at most the
\* break-even fee, otherwise WAIT.
PlanBreakEvenFormula ==
  PlanPrinted =>
    /\ max_base = IF gas >= 1 THEN Max(0, (profit \div gas) - tip)
                  ELSE Max(0, profit - tip)
    /\ \E up \in BOOLEAN :
         stdout[1].break_even_baseFee_gwei = round3_wei_to_gwei(max_base, up)
    /\ stdout[1].recommend \in {"SEND", "WAIT"}
    /\ stdout[1].recommend = "SEND" <=> bf <= max_base

\* C5 witness: a plan with a positive tip and several gas units that
\* recommends SEND at a positive break-even fee
PlanSendPositiveBreakEven ==
  /\ PlanPrinted /\ gas > 1 /\ tip > 0 /\ max_base > 0
  /\ stdout[1].recommend = "SEND"

\* g * x <= p, formed without leaving the 32-bit range
ProdLeq(g, x, p) ==
  IF g > 0 THEN x <= p \div g
  ELSE IF g = 0 THEN 0 <= p
  ELSE (-p) <= (-g) * x

\* C6 as stated: for every profit, gasUnits and tip
\* gasUnits * (breakEven + tip) <= profit_wei < gasUnits * (breakEven + 1 + tip),
\* and SEND implies gasUnits * (baseFee + tip) <= profit_wei.
PlanBreakEvenIsHighest ==
  PlanPrinted =>
    /\ ProdLeq(gas, max_base + tip, profit)
    /\ ~ProdLeq(gas, max_base + 1 + tip, profit)
    /\ stdout[1].recommend = "SEND" => ProdLeq(gas, bf + tip, profit)

\* C6 amended: for gasUnits >= 1, gasUnits * (breakEven + 1 + tip) exceeds
\* profit_wei; and whenever floor(profit_wei / gasUnits) - tip is not negative
\* (the clamp at zero does not engage), gasUnits * (breakEven + tip) is at
\* most profit_wei and SEND implies gasUnits * (baseFee + tip) <= profit_wei.
PlanBreakEvenHighestUnclamped ==
  (PlanPrinted /\ gas >= 1) =>
    /\ ~ProdLeq(gas, max_base + 1 + tip, profit)
    /\ (profit \div gas) - tip >= 0 =>
         /\ ProdLeq(gas, max_base + tip, profit)
         /\ stdout[1].recommend = "SEND" => ProdLeq(gas, bf + tip, profit)

\* C6 witness: SEND with an unclamped break-even fee where profit is not a
\* multiple of the gas units
PlanSendUnclamped ==
  /\ PlanPrinted /\ gas > 1 /\ profit % gas # 0
  /\ (profit \div gas) - tip >= 0
  /\ stdout[1].recommend = "SEND"

\* C7 as stated: maxprio never ends the process and never surfaces an error;
\* when its request fails it returns 1,500,000,000 wei, and plan and estimate
\* go on to the base-fee request and complete if that request succeeds.
MaxprioFallbackCompletes ==
  /\ Done => method # "eth_maxPriorityFeePerGas"
  /\ prioFallback =>
       /\ tip = 1500000000
       /\ method \in {"eth_getBlockByNumber", "eth_estimateGas"}
       /\ "eth_maxPriorityFeePerGas" \notin usable
       /\ (Done /\ "eth_getBlockByNumber" \in usable) =>
            exitCode = 0 /\ OnlyJson

\* C7 amended: maxprio never ends the process and never surfaces an error;
\* when its request fails it returns 1,500,000,000 wei, and plan and estimate
\* go on to the base-fee request; plan completes if that request succeeds,
\* estimate completes if that request and the gas-estimation request succeed.
MaxprioFallbackProceeds ==
  /\ Done => method # "eth_maxPriorityFeePerGas"
  /\ prioFallback =>
       /\ tip = 1500000000
       /\ method \in {"eth_getBlockByNumber", "eth_estimateGas"}
       /\ "eth_maxPriorityFeePerGas" \notin usable
       /\ stdout = <<>> \/ Done
       /\ (Done /\ "eth_getBlockByNumber" \in usable
                /\ (mode = "estimate" => "eth_estimateGas" \in usable)) =>
            /\ exitCode = 0 /\ OnlyJson /\ stderr = ""
            /\ mode = "plan" =>
                 \E up \in BOOLEAN :
                   stdout[1].priority_gwei = round3_wei_to_gwei(1500000000, up)

\* C7 witness: the priority-fee request failed and plan still printed its
\* object, with the default tip
PlanCompletedOnDefaultTip ==
  /\ mode = "plan" /\ prioFallback /\ ~("eth_maxPriorityFeePerGas" \in usable)
  /\ Done /\ exitCode = 0 /\ OnlyJson
  /\ stdout[1].priority_gwei = 1500

Range(v) == {v[i] : i \in DOMAIN v}

\* the r-th smallest entry of v (r from 1), by counting
OrderStat(v, r) ==
  CHOOSE x \in Range(v) :
    /\ Cardinality({i \in DOMAIN v : v[i] < x}) < r
    /\ Cardinality({i \in DOMAIN v : v[i] <= x}) >= r

\* 100 * (linear blend at rank k = (len - 1) * p / 100)
Blend100(v, p) ==
  LET kn == (Len(v) - 1) * p
      i  == kn \div 100
      lo == OrderStat(v, i + 1)
      hi == OrderStat(v, Min(i + 1, Len(v) - 1) + 1)
  IN  100 * lo + (hi - lo) * (kn % 100)

\* the samples kept are the last Min(n, length) entries of the answer
KeepsLastN ==
  /\ Len(base) = Min(n, Len(res.list))
  /\ \A i \in DOMAIN base : base[i] = res.list[Len(res.list) - Len(base) + i]

\* the object reports the percentiles computed and the last entry
ReportsGwei ==
  /\ \A p \in DefaultPcts : \E up \in BOOLEAN :
       stdout[1].pct_gwei[p] = round3_wei_to_gwei(pctWei[p], up)
  /\ \E up \in BOOLEAN :
       stdout[1].latest = round3_wei_to_gwei(res.list[Len(res.list)], up)

AllOrNothingOutput ==
  mode \in Handlers =>
    /\ ~Done => stdout = <<>>
    /\ Done => \/ exitCode = 0 /\ OnlyJson
               \/ exitCode # 0 /\ stdout = <<>>

\* C9 amended: every run of oracle, plan and estimate is all-or-nothing on
\* standard output (one JSON object printed as its last act with status 0,
\* or nothing with a non-zero status).  wait never prints a JSON object: it
\* prints one fee line per poll as it goes, then GO (status 0) or TIMEOUT
\* (status 2) as its last line, and a run ended by an RPC failure has printed
\* the fee lines of the polls before it.
AllOrNothingExceptWait ==
  /\ mode \in Handlers \ {"wait"} =>
       /\ ~Done => stdout = <<>>
       /\ Done => \/ exitCode = 0 /\ OnlyJson
                  \/ exitCode # 0 /\ stdout = <<>>
  /\ mode = "wait" =>
       /\ JsonCount = 0
       /\ \A i \in 1..Len(fees) : i <= Len(stdout) /\ stdout[i].kind = "line"
       /\ Len(stdout) = Len(fees) + (IF GoPrinted \/ TimeoutPrinted THEN 1 ELSE 0)
       /\ (Done /\ exitCode = 0) => GoPrinted
       /\ (Done /\ exitCode = 1) => ~GoPrinted /\ ~TimeoutPrinted

\* C9 witness: estimate failed at its last request, after two successful
\* ones, and printed nothing
EstimateFailedSilently ==
  /\ mode = "estimate" /\ Done /\ exitCode # 0
  /\ "eth_getBlockByNumber" \in usable
  /\ method = "eth_estimateGas"
  /\ stdout = <<>>

\* C10: with the clock advancing by the sleep on every iteration and every
\* request returning or failing, a wait run with a target always ends, by
\* GO, by TIMEOUT or by a fatal failure, whatever the fees are; and TIMEOUT
\* is never printed before a poll was made.
WaitTerminates ==
  /\ (mode = "wait" /\ a # <<>>) ~>
       (Done /\ (GoPrinted \/ TimeoutPrinted \/ exitCode = 1))
  /\ [](TimeoutPrinted => Len(fees) >= 1)

\* C10 witness: fees stayed above the target for several polls and wait
\* ended by TIMEOUT
WaitTimedOutAfterPolls ==
  /\ mode = "wait" /\ Done /\ TimeoutPrinted
  /\ Len(fees) >= 3
  /\ \A i \in DOMAIN fees : fees[i] > tgt

====
